---- MODULE Spec2Model ----
(***************************************************************************)
(* A model of src/app.py, the "AI Agent Dashboard": the keyword-driven      *)
(* query interpreter extract_info, the Google Sheets loader                 *)
(* get_google_sheet, and the Streamlit script main(), which is re-run from  *)
(* top to bottom on every user interaction.                                 *)
(*                                                                          *)
(* Text is modelled by TLA+ strings (TLC evaluates Len, SubSeq and \o on    *)
(* them).  A float is modelled by an exact fraction: the binary rounding of *)
(* float arithmetic is outside the model.                                   *)
(***************************************************************************)
EXTENDS Integers, Sequences, FiniteSets, TLC

(***************************************************************************)
(* Bounds of the model.                                                     *)
(***************************************************************************)
\* Most words in a generated prompt.
MaxWords == 2
\* Most data rows in a generated table.
MaxRows == 3

(***************************************************************************)
(* Strings.                                                                 *)
(***************************************************************************)
UpperChars == "ABCDEFGHIJKLMNOPQRSTUVWXYZ"
LowerChars == "abcdefghijklmnopqrstuvwxyz"
DigitChars == "0123456789"

CharAt(s, i) == SubSeq(s, i, i)

\* 0 when c is not a character of chars, else its first position.
IndexIn(chars, c) ==
  IF \E i \in 1..Len(chars) : CharAt(chars, i) = c
  THEN CHOOSE i \in 1..Len(chars) :
         CharAt(chars, i) = c /\ \A j \in 1..(i - 1) : CharAt(chars, j) # c
  ELSE 0

UpperSet == {CharAt(UpperChars, i) : i \in 1..Len(UpperChars)}
LowerOf == [c \in UpperSet |-> CharAt(LowerChars, IndexIn(UpperChars, c))]

LowerChar(c) == IF c \in UpperSet THEN LowerOf[c] ELSE c

RECURSIVE str_lower(_)
\* str.lower(), line 46.
str_lower(s) ==
  IF Len(s) = 0 THEN "" ELSE LowerChar(CharAt(s, 1)) \o str_lower(SubSeq(s, 2, Len(s)))

\* The Python test `k in s` on strings: k occurs in s as a substring.
str_in(k, s) ==
  \E i \in 1..(Len(s) - Len(k) + 1) : SubSeq(s, i, i + Len(k) - 1) = k

StartsWith(s, p) == Len(p) <= Len(s) /\ SubSeq(s, 1, Len(p)) = p
EndsWith(s, p) == Len(p) <= Len(s) /\ SubSeq(s, Len(s) - Len(p) + 1, Len(s)) = p

(***************************************************************************)
(* Exact fractions [n |-> numerator, d |-> denominator], d > 0, in lowest   *)
(* terms.                                                                   *)
(***************************************************************************)
Abs(x) == IF x < 0 THEN -x ELSE x

RECURSIVE Gcd(_, _)
Gcd(a, b) == IF b = 0 THEN a ELSE Gcd(b, a % b)

Rat(n, d) ==
  LET s == IF d < 0 THEN -1 ELSE 1
      g == Gcd(Abs(n), Abs(d))
  IN  [n |-> (s * n) \div g, d |-> (s * d) \div g]

RatOfInt(i) == [n |-> i, d |-> 1]
RatAdd(a, b) == Rat(a.n * b.d + b.n * a.d, a.d * b.d)
RatSub(a, b) == Rat(a.n * b.d - b.n * a.d, a.d * b.d)
RatMul(a, b) == Rat(a.n * b.n, a.d * b.d)
RatDivInt(a, k) == Rat(a.n, a.d * k)
RatLess(a, b) == a.n * b.d < b.n * a.d
RatLeq(a, b) == a.n * b.d <= b.n * a.d

RECURSIVE Pow10(_)
Pow10(k) == IF k = 0 THEN 1 ELSE 10 * Pow10(k - 1)

(***************************************************************************)
(* Cells, tables and float coercion (pandas).                               *)
(*                                                                          *)
(* A cell is a string or None; a table (DataFrame) is its column names and  *)
(* its rows, every row as wide as the header.                               *)
(***************************************************************************)
Cell(s) == [isnull |-> FALSE, text |-> s]
NoneCell == [isnull |-> TRUE, text |-> ""]

DataFrame(cols, rows) == [columns |-> cols, data |-> rows]

\* df.columns.tolist() contains the name.
has_column(df, column) == \E i \in 1..Len(df.columns) : df.columns[i] = column

\* df[column]: the cells of the (first) column of that name, top to bottom.
series_of(df, column) ==
  LET i == CHOOSE k \in 1..Len(df.columns) :
             df.columns[k] = column /\ \A j \in 1..(k - 1) : df.columns[j] # column
  IN  [r \in 1..Len(df.data) |-> df.data[r][i]]

\* df.empty: some axis has length 0.
df_empty(df) == Len(df.columns) = 0 \/ Len(df.data) = 0

AllDigits(s) == \A i \in 1..Len(s) : IndexIn(DigitChars, CharAt(s, i)) > 0

RECURSIVE DigitsValue(_)
DigitsValue(s) ==
  IF Len(s) = 0 THEN 0
  ELSE 10 * DigitsValue(SubSeq(s, 1, Len(s) - 1)) + (IndexIn(DigitChars, CharAt(s, Len(s))) - 1)

\* float(text) for plain decimal literals: an optional sign, digits, an
\* optional point and digits, at least one digit.  Anything else is refused
\* (ValueError).  Python also accepts surrounding blanks, exponents, "inf",
\* "nan" and digit-group underscores; the cells of this model use none of them.
float_of_str(text) ==
  LET signed == Len(text) > 0 /\ CharAt(text, 1) \in {"-", "+"}
      neg    == Len(text) > 0 /\ CharAt(text, 1) = "-"
      body   == IF signed THEN SubSeq(text, 2, Len(text)) ELSE text
      dot    == IndexIn(body, ".")
      ip     == IF dot = 0 THEN body ELSE SubSeq(body, 1, dot - 1)
      fp     == IF dot = 0 THEN "" ELSE SubSeq(body, dot + 1, Len(body))
      ok     == AllDigits(ip) /\ AllDigits(fp) /\ Len(ip) + Len(fp) > 0
      mag    == Rat(DigitsValue(ip \o fp), Pow10(Len(fp)))
  IN  IF ok
      THEN [ok |-> TRUE, v |-> IF neg THEN Rat(-mag.n, mag.d) ELSE mag]
      ELSE [ok |-> FALSE, v |-> RatOfInt(0)]

\* One cell under astype(float): None becomes NaN, a string goes through float().
cell_to_float(c) ==
  IF c.isnull THEN [ok |-> TRUE, nan |-> TRUE, v |-> RatOfInt(0)]
  ELSE [ok |-> float_of_str(c.text).ok, nan |-> FALSE, v |-> float_of_str(c.text).v]

\* Series.astype(float): a new series of floats, or ValueError naming the
\* first cell float() refuses.  The series it is applied to is not changed.
astype_float(cells) ==
  LET bad == {i \in 1..Len(cells) : ~cell_to_float(cells[i]).ok}
  IN  IF bad = {}
      THEN [raised |-> FALSE, exc |-> "",
            vals |-> [i \in 1..Len(cells) |-> cell_to_float(cells[i])]]
      ELSE LET i == CHOOSE k \in bad : \A j \in bad : k <= j
           IN  [raised |-> TRUE,
                exc |-> "could not convert string to float: '" \o cells[i].text \o "'",
                vals |-> <<>>]

(***************************************************************************)
(* The reductions of a float series (pandas, skipna=True): NaN entries are  *)
(* left out, and the result is NaN where nothing is left to reduce.         *)
(***************************************************************************)
NaN == [k |-> "nan", r |-> RatOfInt(0)]
FloatVal(r) == [k |-> "float", r |-> r]
IntVal(i) == [k |-> "int", r |-> RatOfInt(i)]

IsNotNaN(x) == ~x.nan
\* The non-NaN values, in series order.
valid(vals) == [i \in 1..Len(SelectSeq(vals, IsNotNaN)) |-> SelectSeq(vals, IsNotNaN)[i].v]

RECURSIVE fold_min(_)
fold_min(xs) ==
  IF Len(xs) = 1 THEN xs[1]
  ELSE LET m == fold_min(Tail(xs)) IN IF RatLess(m, xs[1]) THEN m ELSE xs[1]

RECURSIVE fold_max(_)
fold_max(xs) ==
  IF Len(xs) = 1 THEN xs[1]
  ELSE LET m == fold_max(Tail(xs)) IN IF RatLess(xs[1], m) THEN m ELSE xs[1]

RECURSIVE fold_sum(_)
fold_sum(xs) == IF Len(xs) = 0 THEN RatOfInt(0) ELSE RatAdd(xs[1], fold_sum(Tail(xs)))

RECURSIVE insert_sorted(_, _)
insert_sorted(x, xs) ==
  IF Len(xs) = 0 THEN <<x>>
  ELSE IF RatLeq(x, xs[1]) THEN <<x>> \o xs
  ELSE <<xs[1]>> \o insert_sorted(x, Tail(xs))

RECURSIVE sorted(_)
sorted(xs) == IF Len(xs) = 0 THEN <<>> ELSE insert_sorted(xs[1], sorted(Tail(xs)))

series_min(vals) == IF Len(valid(vals)) = 0 THEN NaN ELSE FloatVal(fold_min(valid(vals)))
series_max(vals) == IF Len(valid(vals)) = 0 THEN NaN ELSE FloatVal(fold_max(valid(vals)))
series_sum(vals) == FloatVal(fold_sum(valid(vals)))
series_mean(vals) ==
  IF Len(valid(vals)) = 0 THEN NaN
  ELSE FloatVal(RatDivInt(fold_sum(valid(vals)), Len(valid(vals))))

\* The middle of the sorted values; the mean of the two middle ones for an
\* even count.
series_median(vals) ==
  LET s == sorted(valid(vals))
      n == Len(s)
  IN  IF n = 0 THEN NaN
      ELSE IF n % 2 = 1 THEN FloatVal(s[(n + 1) \div 2])
      ELSE FloatVal(RatDivInt(RatAdd(s[n \div 2], s[n \div 2 + 1]), 2))

\* Delta degrees of freedom of Series.var() and Series.std() (pandas' default).
ddof == 1

RECURSIVE sum_sq_dev(_, _)
sum_sq_dev(xs, avg) ==
  IF Len(xs) = 0 THEN RatOfInt(0)
  ELSE RatAdd(RatMul(RatSub(xs[1], avg), RatSub(xs[1], avg)), sum_sq_dev(Tail(xs), avg))

\* The variance over the count itself (ddof = 0).
series_var_population(vals) ==
  LET xs  == valid(vals)
      n   == Len(xs)
      avg == RatDivInt(fold_sum(xs), n)
  IN  IF n <= 0 THEN [k |-> "nan", r |-> RatOfInt(0)]
      ELSE [k |-> "float", r |-> RatDivInt(sum_sq_dev(xs, avg), n)]

\* The squared deviations from the mean, summed, over count - ddof.
series_var(vals) ==
  LET xs  == valid(vals)
      n   == Len(xs)
      avg == RatDivInt(fold_sum(xs), n)
  IN  IF n - ddof <= 0 THEN NaN
      ELSE FloatVal(RatDivInt(sum_sq_dev(xs, avg), n - ddof))

IsSquare(m) == \E k \in 0..m : k * k = m
ISqrt(m) == CHOOSE k \in 0..m : k * k = m

\* The square root of the variance: exact when the variance is the square
\* of a fraction, and otherwise kept as the root of its radicand.
series_std(vals) ==
  LET v == series_var(vals)
  IN  IF v.k = "nan" THEN NaN
      ELSE IF IsSquare(v.r.n) /\ IsSquare(v.r.d)
           THEN FloatVal(Rat(ISqrt(v.r.n), ISqrt(v.r.d)))
           ELSE [k |-> "sqrt", r |-> v.r]

\* Series.count(): the cells that are not null; no coercion.
RECURSIVE series_count(_)
series_count(cells) ==
  IF Len(cells) = 0 THEN 0
  ELSE (IF cells[1].isnull THEN 0 ELSE 1) + series_count(Tail(cells))

\* A fraction as text: "20.0" for an integral float, as Python writes it;
\* a float that is not integral is written as its exact fraction.
RatText(r) ==
  IF r.d = 1 THEN ToString(r.n) \o ".0" ELSE ToString(r.n) \o "/" \o ToString(r.d)

\* The text an f-string writes for a computed value.
value_text(x) ==
  CASE x.k = "nan"   -> "nan"
    [] x.k = "int"   -> ToString(x.r.n)
    [] x.k = "float" -> RatText(x.r)
    [] x.k = "sqrt"  -> "sqrt(" \o RatText(x.r) \o ")"

(***************************************************************************)
(* extract_info (lines 42-74).                                              *)
(***************************************************************************)
\* spacy.load("en_core_web_sm") and nlp(prompt), lines 44-45: the pipeline is
\* a dependency the deployment installs, the parse is computed and never
\* consulted, and neither step raises.
nlp_parse(prompt) == [raised |-> FALSE, type |-> "", exc |-> ""]

\* The cascade with the sum test moved ahead of the average test.
select_branch_sum_first(p) ==
  IF str_in("minimum", p) \/ str_in("lowest", p) THEN "minimum"
  ELSE IF str_in("maximum", p) \/ str_in("highest", p) THEN "maximum"
  ELSE IF str_in("sum", p) \/ str_in("total", p) THEN "sum"
  ELSE IF str_in("average", p) \/ str_in("mean", p) THEN "average"
  ELSE IF str_in("count", p) \/ str_in("number of", p) THEN "count"
  ELSE IF str_in("median", p) THEN "median"
  ELSE IF str_in("standard deviation", p) \/ str_in("std dev", p) THEN "standard deviation"
  ELSE IF str_in("variance", p) THEN "variance"
  ELSE "unsupported"

\* The if/elif cascade of lines 47-71 on the lower-cased prompt: the branch
\* of the first test that succeeds.
select_branch(p) ==
  IF str_in("minimum", p) \/ str_in("lowest", p) THEN "minimum"
  ELSE IF str_in("maximum", p) \/ str_in("highest", p) THEN "maximum"
  ELSE IF str_in("average", p) \/ str_in("mean", p) THEN "average"
  ELSE IF str_in("sum", p) \/ str_in("total", p) THEN "sum"
  ELSE IF str_in("count", p) \/ str_in("number of", p) THEN "count"
  ELSE IF str_in("median", p) THEN "median"
  ELSE IF str_in("standard deviation", p) \/ str_in("std dev", p) THEN "standard deviation"
  ELSE IF str_in("variance", p) THEN "variance"
  ELSE "unsupported"

\* The reduction a branch applies to the coerced column.
reduce(b, vals) ==
  CASE b = "minimum"            -> series_min(vals)
    [] b = "maximum"            -> series_max(vals)
    [] b = "average"            -> series_mean(vals)
    [] b = "sum"                -> series_sum(vals)
    [] b = "median"             -> series_median(vals)
    [] b = "standard deviation" -> series_std(vals)
    [] b = "variance"           -> series_var(vals)

\* Every branch but count worded alike, "The <name> value in column".
result_text_uniform(b, column, value) ==
  IF b = "count"
  THEN "The count of values in column '" \o column \o "' is " \o value_text(value) \o "."
  ELSE "The " \o b \o " value in column '" \o column \o "' is " \o value_text(value) \o "."

\* The f-string each branch returns (lines 49, 52, 55, 58, 61, 64, 67, 70).
result_text(b, column, value) ==
  CASE b = "minimum" ->
         "The minimum value in column '" \o column \o "' is " \o value_text(value) \o "."
    [] b = "maximum" ->
         "The maximum value in column '" \o column \o "' is " \o value_text(value) \o "."
    [] b = "average" ->
         "The average value in column '" \o column \o "' is " \o value_text(value) \o "."
    [] b = "sum" ->
         "The sum of values in column '" \o column \o "' is " \o value_text(value) \o "."
    [] b = "count" ->
         "The count of values in column '" \o column \o "' is " \o value_text(value) \o "."
    [] b = "median" ->
         "The median value in column '" \o column \o "' is " \o value_text(value) \o "."
    [] b = "standard deviation" ->
         "The standard deviation of values in column '" \o column \o "' is "
           \o value_text(value) \o "."
    [] b = "variance" ->
         "The variance of values in column '" \o column \o "' is " \o value_text(value) \o "."

\* Line 72.
QueryNotSupported ==
  "Query not supported. Please rephrase your query to include 'minimum', 'maximum', 'average', 'sum', 'count', 'median', 'standard deviation', or 'variance'."

Returned(text) == [raised |-> FALSE, type |-> "", exc |-> "", text |-> text]
Raised(type, exc) == [raised |-> TRUE, type |-> type, exc |-> exc, text |-> ""]

\* df[column] of an absent column: KeyError, whose text is the repr of the key.
KeyErrorOf(column) == Raised("KeyError", "'" \o column \o "'")

\* The branches with df[column] read ahead of the test for an unsupported
\* prompt.
run_branch_lookup_first(b, df, column) ==
  IF ~has_column(df, column) THEN Raised("KeyError", "'" \o column \o "'")
  ELSE IF b = "unsupported" THEN Returned(QueryNotSupported)
  ELSE IF b = "count"
    THEN Returned(result_text(b, column, IntVal(series_count(series_of(df, column)))))
  ELSE IF astype_float(series_of(df, column)).raised
    THEN Raised("ValueError", astype_float(series_of(df, column)).exc)
  ELSE Returned(result_text(b, column, reduce(b, astype_float(series_of(df, column)).vals)))

\* The statistic of a numeric branch b over f, the column as astype(float)
\* left it: the ValueError of the coercion, or the branch's sentence.
reduce_and_format(b, column, f) ==
  IF f.raised THEN Raised("ValueError", f.exc)
  ELSE Returned(result_text(b, column, reduce(b, f.vals)))

\* The body of branch b, lines 48-72.
run_branch(b, df, column) ==
  IF b = "unsupported" THEN Returned(QueryNotSupported)
  ELSE IF ~has_column(df, column) THEN KeyErrorOf(column)
  ELSE IF b = "count"
    THEN Returned(result_text(b, column, IntVal(series_count(series_of(df, column)))))
  ELSE reduce_and_format(b, column, astype_float(series_of(df, column)))

\* The body of the try block, lines 44-72: what it returns, or the exception
\* that leaves it.  The column is looked up, and coerced, only inside the
\* branch that was selected.
extract_info_try(df, column, prompt) ==
  IF nlp_parse(prompt).raised THEN Raised("OSError", nlp_parse(prompt).exc)
  ELSE run_branch(select_branch(str_lower(prompt)), df, column)

\* A handler written `except ValueError`: a KeyError passes through it.
Caught_ValueErrorOnly(type) == type = "ValueError"

\* The exception classes `except Exception` (line 73) catches.
Caught(type) == TRUE

\* Lines 73-74 applied to r, the way the try block ended: an exception the
\* handler catches becomes the returned text "Error: <exception text>".
except_Exception(r) ==
  IF ~r.raised THEN [kind |-> "return", text |-> r.text]
  ELSE IF Caught(r.type) THEN [kind |-> "return", text |-> "Error: " \o r.exc]
  ELSE [kind |-> "raise", text |-> r.exc]

\* extract_info, lines 42-74: how the call ends ("return" or "raise") and
\* with what text.
extract_info(df, column, prompt) == except_Exception(extract_info_try(df, column, prompt))

\* The call with the coerced column assigned back,
\* df[column] = df[column].astype(float).
extract_info_df_inplace(df, column, prompt) ==
  IF \/ select_branch(str_lower(prompt)) \in {"unsupported", "count"}
     \/ ~has_column(df, column)
  THEN df
  ELSE IF astype_float(series_of(df, column)).raised THEN df
  ELSE DataFrame(df.columns,
         [r \in 1..Len(df.data) |->
            [i \in 1..Len(df.columns) |->
               IF df.columns[i] # column \/ df.data[r][i].isnull THEN df.data[r][i]
               ELSE Cell(RatText(float_of_str(df.data[r][i].text).v))]])

\* The table the caller passed, as the call leaves it: df[column] is read
\* and astype(float) builds a new series, nothing is assigned to df.
extract_info_df(df, column, prompt) == df

(***************************************************************************)
(* State.                                                                   *)
(*                                                                          *)
(* df, column, prompt, outcome: the arguments of the extract_info call of   *)
(* the latest run and how it ended (they are locals of the run: a run that  *)
(* makes no call leaves none); phase tells whether a call is pending.       *)
(* The other variables are the dashboard's: the widgets' values, the        *)
(* session state, and what the latest run of the script showed.             *)
(***************************************************************************)
VARIABLES df, column, prompt, outcome, phase,
          uploaded_file, spreadsheet_id, range_name, session_state,
          rendered, fault, event, fetched, stale

vars == <<df, column, prompt, outcome, phase,
          uploaded_file, spreadsheet_id, range_name, session_state,
          rendered, fault, event, fetched, stale>>

call_vars == <<df, column, prompt, outcome, phase>>
dash_vars == <<uploaded_file, spreadsheet_id, range_name, session_state,
               rendered, fault, event, fetched, stale>>

NoTable == DataFrame(<<>>, <<>>)
NoOutcome == [kind |-> "none", text |-> ""]
NoFile == [present |-> FALSE, lines |-> <<>>]
NoFetch == [kind |-> "none", exc |-> "", values |-> <<>>]

\* The dashboard as the first run of the script leaves it: nothing uploaded,
\* both text inputs empty, no 'google_df' in the session state.  The
\* credentials of lines 9-16 were found (without them line 20 stops the
\* script before main() is reached).
DashInit ==
  /\ uploaded_file = NoFile
  /\ spreadsheet_id = ""
  /\ range_name = ""
  /\ session_state = [has_google_df |-> FALSE, google_df |-> NoTable]
  /\ rendered = <<>>
  /\ fault = FALSE
  /\ event = "start"
  /\ fetched = NoFetch
  /\ stale = FALSE

(***************************************************************************)
(* The interpreter on its own: the inputs of one call are drawn from        *)
(* bounded sets, and Evaluate applies extract_info to them.                 *)
(***************************************************************************)
\* Words a prompt is made of: every keyword of the cascade in some letter
\* case (the two-word keywords arise from neighbouring words), and a word
\* that is no keyword.
Vocabulary ==
  {"minimum", "LOWEST", "Maximum", "highest", "Average", "mean", "sum", "Total",
   "count", "Number", "of", "median", "Standard", "deviation", "std", "Dev",
   "VARIANCE", "joke"}

JoinWords(p, w) == IF p = "" THEN w ELSE p \o " " \o w

RECURSIVE PromptsUpTo(_)
\* The prompts of at most k words.
PromptsUpTo(k) ==
  IF k = 0 THEN {""}
  ELSE PromptsUpTo(k - 1) \cup {JoinWords(p, w) : p \in PromptsUpTo(k - 1), w \in Vocabulary}

WordPrompts == PromptsUpTo(MaxWords)

\* Whole sentences, one or more per branch.
SentencePrompts ==
  {"Get me the minimum value of column X", "What is the HIGHEST?", "What is the average?",
   "Get the total average", "Summary please", "number of rows", "Median", "the std dev",
   "variance", "Tell me a joke", ""}

\* The cells a generated column is made of.
CellPool == {Cell("10"), Cell("-5"), Cell("2.5"), Cell("abc"), NoneCell}

RECURSIVE ColumnsUpTo(_)
\* The cell sequences of at most k cells.
ColumnsUpTo(k) ==
  IF k = 0 THEN {<<>>}
  ELSE ColumnsUpTo(k - 1) \cup {Append(c, x) : c \in ColumnsUpTo(k - 1), x \in CellPool}

\* One-column tables over the cell pool.
GeneratedTables ==
  {DataFrame(<<"Age">>, [r \in 1..Len(c) |-> <<c[r]>>]) : c \in ColumnsUpTo(MaxRows)}

\* The spec's example table, with a text column and a column holding an
\* empty string beside it.
PeopleTable ==
  DataFrame(<<"Age", "Name", "Note">>,
            << <<Cell("10"), Cell("Ann"), Cell("7")>>,
               <<Cell("20"), Cell("Bob"), Cell("")>>,
               <<Cell("30"), Cell("abc"), NoneCell>> >>)

\* Column names a call is made with; "Nope" is a column of no table.
CallColumns == {"Age", "Name", "Note", "Nope"}

ExtractInit ==
  /\ \/ df \in GeneratedTables /\ prompt \in SentencePrompts /\ column \in {"Age", "Nope"}
     \/ df = PeopleTable /\ prompt \in WordPrompts /\ column \in CallColumns
  /\ outcome = NoOutcome
  /\ phase = "called"
  /\ DashInit

\* The call runs to its end.
Evaluate ==
  /\ phase = "called"
  /\ outcome' = extract_info(df, column, prompt)
  /\ df' = extract_info_df(df, column, prompt)
  /\ phase' = "returned"
  /\ UNCHANGED <<column, prompt>>
  /\ UNCHANGED dash_vars

ExtractNext == Evaluate

SpecExtract == ExtractInit /\ [][ExtractNext]_vars

(***************************************************************************)
(* The loaders.                                                             *)
(***************************************************************************)
MaxOf(S) == CHOOSE m \in S : \A x \in S : x <= m

\* pd.DataFrame(values[1:], columns=values[0]), line 35.  With no data rows
\* the table is empty and keeps the header's columns.  Otherwise the data is
\* as wide as its longest row, shorter rows are filled with None, and a
\* width other than the header's is a ValueError.
DataFrame_of_values(values) ==
  LET header == values[1]
      data   == Tail(values)
      width  == MaxOf({Len(data[r]) : r \in 1..Len(data)})
      cell(r, i) == IF i <= Len(data[r]) THEN Cell(data[r][i]) ELSE NoneCell
  IN  IF Len(data) = 0
        THEN [raised |-> FALSE, exc |-> "", df |-> DataFrame(header, <<>>)]
      ELSE IF width # Len(header)
        THEN [raised |-> TRUE,
              exc |-> ToString(Len(header)) \o " columns passed, passed data had "
                        \o ToString(width) \o " columns",
              df |-> NoTable]
      ELSE [raised |-> FALSE, exc |-> "",
            df |-> DataFrame(header,
                             [r \in 1..Len(data) |-> [i \in 1..Len(header) |-> cell(r, i)]])]

Error(text) == [kind |-> "error", text |-> text]
Write(text) == [kind |-> "write", text |-> text]
\* st.write of a table preview (df.head()).
Preview == [kind |-> "dataframe", text |-> ""]

\* Lines 35-40 given made, how the DataFrame constructor ended.
sheet_or_error(made) ==
  IF made.raised
    THEN [none |-> TRUE, df |-> NoTable,
          shown |-> <<Error("Error connecting to Google Sheets: " \o made.exc)>>]
  ELSE [none |-> FALSE, df |-> made.df, shown |-> <<>>]

\* get_google_sheet, lines 24-40, given how the fetch of lines 26-29 ended:
\* the table or None, and the st.error messages it shows.
get_google_sheet(fetch) ==
  IF fetch.kind = "raise"
    THEN [none |-> TRUE, df |-> NoTable,
          shown |-> <<Error("Error connecting to Google Sheets: " \o fetch.exc)>>]
  ELSE IF Len(fetch.values) = 0
    THEN [none |-> TRUE, df |-> NoTable, shown |-> <<Error("No data found.")>>]
  ELSE sheet_or_error(DataFrame_of_values(fetch.values))

\* pd.read_csv, line 84, on the file's lines, each split into its fields.
\* A file without lines is an EmptyDataError; a line after the first data
\* row with more fields than the header is a ParserError; an empty field
\* and a field missing at the end of a row are NaN.  (A first data row wider
\* than the header would become an index; no file of the model has one.)
read_csv(lines) ==
  LET header == lines[1]
      data   == Tail(lines)
      wide   == {r \in 2..Len(data) : Len(data[r]) > Len(header)}
      cell(r, i) ==
        IF i <= Len(data[r]) /\ data[r][i] # "" THEN Cell(data[r][i]) ELSE NoneCell
  IN  IF Len(lines) = 0
        THEN [raised |-> TRUE, exc |-> "No columns to parse from file", df |-> NoTable]
      ELSE IF wide # {}
        THEN LET r == CHOOSE x \in wide : \A y \in wide : x <= y
             IN  [raised |-> TRUE,
                  exc |-> "Error tokenizing data. C error: Expected "
                            \o ToString(Len(header)) \o " fields in line "
                            \o ToString(r + 1) \o ", saw " \o ToString(Len(data[r])),
                  df |-> NoTable]
      ELSE [raised |-> FALSE, exc |-> "",
            df |-> DataFrame(header,
                             [r \in 1..Len(data) |-> [i \in 1..Len(header) |-> cell(r, i)]])]

(***************************************************************************)
(* main(), lines 76-137: one run of the script.                             *)
(*                                                                          *)
(* click is the button pressed in this run, or the widget that was edited;  *)
(* col and q are the values of the section's selectbox and prompt input.    *)
(* Each section is an operator over what the sections above it left.        *)
(***************************************************************************)
NoCall == [made |-> FALSE, df |-> NoTable, after |-> NoTable, outcome |-> NoOutcome]

\* Lines 92-102 and 127-137 given r, how the call of extract_info ended, and
\* after, the table as the call left it.
show_extracted(table, after, r) ==
  [raised |-> r.kind = "raise",
   shown  |-> IF r.kind = "raise" THEN <<>> ELSE <<Write(r.text)>>,
   call   |-> [made |-> TRUE, df |-> table, after |-> after, outcome |-> r]]

\* Lines 91-102 and 126-137: the call, and what is shown of it.
extract_and_show(table, col, q) ==
  show_extracted(table, extract_info_df(table, col, q), extract_info(table, col, q))

\* Lines 85-102 given r, how read_csv ended.  read_csv stands in no try
\* block: what it raises leaves main().
csv_loaded(r, click, col, q) ==
  IF r.raised THEN [raised |-> TRUE, shown |-> <<>>, call |-> NoCall]
  ELSE IF ~df_empty(r.df) /\ click = "csv_extract"
    THEN extract_and_show(r.df, col, q)
  ELSE [raised |-> FALSE, shown |-> <<>>, call |-> NoCall]

\* The st.write calls of lines 85-86, made once read_csv has returned.
csv_preview(r) == IF r.raised THEN <<>> ELSE <<Write("Uploaded Data Preview:"), Preview>>

\* The upload section, lines 81-102.
csv_section(file, click, col, q) ==
  IF ~file.present THEN [raised |-> FALSE, shown |-> <<>>, call |-> NoCall]
  ELSE csv_loaded(read_csv(file.lines), click, col, q)

\* Lines 112-117 given g, what get_google_sheet returned.  The session's
\* table is assigned when a table was returned, and on no other path.
sheet_loaded(session, g) ==
  IF ~g.none
    THEN [session |-> [has_google_df |-> TRUE, google_df |-> g.df],
          shown |-> g.shown \o <<Write("Google Sheet Data Preview:"), Preview>>,
          attempted |-> TRUE, loaded |-> TRUE]
  ELSE [session |-> session,
        shown |-> g.shown \o
          <<Error("No data found. Please check the Google Sheets ID and range.")>>,
        attempted |-> TRUE, loaded |-> FALSE]

\* Lines 109-119: the 'Load Google Sheet' button.
load_section(id, rng, session, click, fetch) ==
  IF click # "load"
    THEN [session |-> session, shown |-> <<>>, attempted |-> FALSE, loaded |-> FALSE]
  ELSE IF id = "" \/ rng = ""
    THEN [session |-> session,
          shown |-> <<Error("Please provide both Google Sheets ID and range.")>>,
          attempted |-> FALSE, loaded |-> FALSE]
  ELSE sheet_loaded(session, get_google_sheet(fetch))

\* Lines 121-137: the query widgets over the session's table.
query_section(session, click, col, q) ==
  IF session.has_google_df /\ click = "google_extract"
  THEN extract_and_show(session.google_df, col, q)
  ELSE [raised |-> FALSE, shown |-> <<>>, call |-> NoCall]

\* The end of a run in which the upload section raised (read_csv, or the
\* call made there): nothing below line 102 is run or rendered.
ended_in_upload(file, c, session, was_stale) ==
  [fault |-> TRUE, rendered |-> csv_preview(read_csv(file.lines)) \o c.shown,
   session |-> session, fetch_made |-> FALSE, stale |-> was_stale, call |-> c.call]

\* The end of a run that reached the Sheets section: l is what the load
\* section left, g what the query section did.  The table the query section
\* passed to extract_info is the session's own object.
ended_in_sheets(file, c, l, g, was_stale) ==
  [fault |-> g.raised,
   rendered |-> csv_preview(read_csv(file.lines)) \o c.shown \o l.shown \o g.shown,
   session |-> IF g.call.made THEN [l.session EXCEPT !.google_df = g.call.after]
               ELSE l.session,
   fetch_made |-> l.attempted,
   stale |-> IF ~l.attempted THEN was_stale
             ELSE IF l.loaded THEN FALSE
             ELSE l.session.has_google_df,
   call |-> IF c.call.made THEN c.call ELSE g.call]

\* Lines 104-137 after an upload section that ended as c.
after_load(file, session, click, col, q, c, l, was_stale) ==
  ended_in_sheets(file, c, l, query_section(l.session, click, col, q), was_stale)

after_upload(file, id, rng, session, click, col, q, fetch, c, was_stale) ==
  IF c.raised THEN ended_in_upload(file, c, session, was_stale)
  ELSE after_load(file, session, click, col, q, c,
                  load_section(id, rng, session, click, fetch), was_stale)

\* main(), lines 76-137: what one run of the script leaves.  stale tells
\* that the session's table comes from a load older than the latest call of
\* get_google_sheet.
main(file, id, rng, session, click, col, q, fetch, was_stale) ==
  after_upload(file, id, rng, session, click, col, q, fetch,
               csv_section(file, click, col, q), was_stale)

\* The state after a run that ended as m.
Ended(click, file, id, rng, col, q, fetch, m) ==
  /\ event' = click
  /\ uploaded_file' = file
  /\ spreadsheet_id' = id
  /\ range_name' = rng
  /\ fault' = m.fault
  /\ rendered' = m.rendered
  /\ session_state' = m.session
  /\ fetched' = IF m.fetch_made THEN fetch ELSE NoFetch
  /\ stale' = m.stale
  /\ df' = m.call.after
  /\ column' = IF m.call.made THEN col ELSE ""
  /\ prompt' = IF m.call.made THEN q ELSE ""
  /\ outcome' = m.call.outcome
  /\ phase' = IF m.call.made THEN "returned" ELSE "idle"

\* One run of main() on the widgets' values.
Run(click, file, id, rng, col, q, fetch) ==
  Ended(click, file, id, rng, col, q, fetch,
        main(file, id, rng, session_state, click, col, q, fetch, stale))

(***************************************************************************)
(* The user's interactions, each followed by a run of the script.           *)
(***************************************************************************)
\* The files a user uploads, as lines of fields.
CsvFiles ==
  { <<>>,
    << <<"Age", "Name">> >>,
    << <<"Age", "Name">>, <<"10", "Ann">>, <<"20", "">>, <<"30">> >>,
    << <<"Age", "Name">>, <<"10", "Ann">>, <<"20", "Bob", "x">> >> }

\* The grids a fetch returns.
Grids ==
  { <<>>,
    << <<"Age", "Name">> >>,
    << <<"Age", "Name">>, <<"10", "Ann">>, <<"30", "Bob">> >>,
    << <<"Age", "Name">>, <<"10", "Ann">>, <<"20">> >>,
    << <<"Age", "Name">>, <<"10">> >>,
    << <<"Score">>, <<"7">>, <<"abc">> >> }

\* How a fetch ends: with an exception of the client, or with a grid.
FetchOutcomes ==
  {[kind |-> "raise", exc |-> "HttpError 404: Requested entity was not found.",
    values |-> <<>>]}
    \cup {[kind |-> "values", exc |-> "", values |-> g] : g \in Grids}

SheetIds == {"", "sheet-1"}
Ranges == {"", "Sheet1!A1:D10"}
DashPrompts == {"What is the average?", "number of rows", "Tell me a joke"}

\* The widgets the latest run rendered.
LoadRendered == ~fault
CsvTable == read_csv(uploaded_file.lines).df
CsvQueryRendered ==
  /\ ~fault
  /\ uploaded_file.present
  /\ ~read_csv(uploaded_file.lines).raised
  /\ ~df_empty(CsvTable)
GoogleQueryRendered == ~fault /\ session_state.has_google_df

ColumnsOf(table) == {table.columns[i] : i \in 1..Len(table.columns)}

\* A file is uploaded, replaced or removed (line 82).
UploadCsv ==
  \E f \in {NoFile} \cup {[present |-> TRUE, lines |-> x] : x \in CsvFiles} :
    /\ f # uploaded_file
    /\ Run("upload", f, spreadsheet_id, range_name, "", "", NoFetch)

\* The spreadsheet ID is edited (line 106).
EditSpreadsheetId ==
  /\ LoadRendered
  /\ \E id \in SheetIds :
       /\ id # spreadsheet_id
       /\ Run("edit", uploaded_file, id, range_name, "", "", NoFetch)

\* The range is edited (line 107).
EditRange ==
  /\ LoadRendered
  /\ \E rng \in Ranges :
       /\ rng # range_name
       /\ Run("edit", uploaded_file, spreadsheet_id, rng, "", "", NoFetch)

\* 'Load Google Sheet' is pressed (line 109).
ClickLoad ==
  /\ LoadRendered
  /\ \E fetch \in FetchOutcomes :
       Run("load", uploaded_file, spreadsheet_id, range_name, "", "", fetch)

\* 'Extract Information' is pressed over the uploaded table (line 91).
ClickCsvExtract ==
  /\ CsvQueryRendered
  /\ \E col \in ColumnsOf(CsvTable), q \in DashPrompts :
       Run("csv_extract", uploaded_file, spreadsheet_id, range_name, col, q, NoFetch)

\* 'Extract Information from Google Sheet' is pressed (line 126).
ClickGoogleExtract ==
  /\ GoogleQueryRendered
  /\ \E col \in ColumnsOf(session_state.google_df), q \in DashPrompts :
       Run("google_extract", uploaded_file, spreadsheet_id, range_name, col, q, NoFetch)

Init ==
  /\ df = NoTable
  /\ column = ""
  /\ prompt = ""
  /\ outcome = NoOutcome
  /\ phase = "idle"
  /\ DashInit

Next ==
  \/ UploadCsv
  \/ EditSpreadsheetId
  \/ EditRange
  \/ ClickLoad
  \/ ClickCsvExtract
  \/ ClickGoogleExtract

Spec == Init /\ [][Next]_vars

(***************************************************************************)
(* What the claims are stated against: the keyword families in their fixed  *)
(* order, and the statistics by their textbook definitions, written without *)
(* the operators that model the code's cascade, coercion and reductions.    *)
(***************************************************************************)
Families ==
  << [name |-> "minimum",            keys |-> {"minimum", "lowest"}],
     [name |-> "maximum",            keys |-> {"maximum", "highest"}],
     [name |-> "average",            keys |-> {"average", "mean"}],
     [name |-> "sum",                keys |-> {"sum", "total"}],
     [name |-> "count",              keys |-> {"count", "number of"}],
     [name |-> "median",             keys |-> {"median"}],
     [name |-> "standard deviation", keys |-> {"standard deviation", "std dev"}],
     [name |-> "variance",           keys |-> {"variance"}] >>

\* Family i has a keyword occurring in the lower-cased text p.
FamilyMatches(i, p) == \E k \in Families[i].keys : str_in(k, p)

\* The first family with a keyword in the prompt, or 0 when there is none.
ExpectedFamily(q) ==
  LET p == str_lower(q)
      matching == {i \in 1..Len(Families) : FamilyMatches(i, p)}
  IN  IF matching = {} THEN 0
      ELSE CHOOSE i \in matching : \A j \in matching : i <= j

ExpectedName(q) == Families[ExpectedFamily(q)].name

\* The numbers the numeric cell texts of the model denote.
NumberOf(text) ==
  CASE text = "10"  -> [n |-> 10, d |-> 1]
    [] text = "20"  -> [n |-> 20, d |-> 1]
    [] text = "30"  -> [n |-> 30, d |-> 1]
    [] text = "7"   -> [n |-> 7, d |-> 1]
    [] text = "-5"  -> [n |-> -5, d |-> 1]
    [] text = "2.5" -> [n |-> 5, d |-> 2]

NumericTexts == {"10", "20", "30", "7", "-5", "2.5"}

Coercible(c) == c.isnull \/ c.text \in NumericTexts

ColumnPresent == has_column(df, column)
ColumnCells == series_of(df, column)
AllCoercible == \A i \in 1..Len(ColumnCells) : Coercible(ColumnCells[i])

\* The rows of the column that hold a number, and the number each holds.
NumRows == {i \in 1..Len(ColumnCells) : ~ColumnCells[i].isnull}
Num(i) == NumberOf(ColumnCells[i].text)

RECURSIVE SumOver(_, _)
\* The sum of term[i] over the rows S, every term an integer.
SumOver(S, term) ==
  IF S = {} THEN 0
  ELSE LET i == CHOOSE x \in S : TRUE IN term[i] + SumOver(S \ {i}, term)

RECURSIVE ProdOver(_, _)
ProdOver(S, term) ==
  IF S = {} THEN 1
  ELSE LET i == CHOOSE x \in S : TRUE IN term[i] * ProdOver(S \ {i}, term)

Den == [i \in NumRows |-> Num(i).d]
\* A denominator common to all the numbers, and each number's numerator over it.
CommonDen == ProdOver(NumRows, Den)
Scaled == [i \in NumRows |-> Num(i).n * (CommonDen \div Num(i).d)]
ScaledSq == [i \in NumRows |-> Scaled[i] * Scaled[i]]

RefCount == Cardinality(NumRows)
RefSum == Rat(SumOver(NumRows, Scaled), CommonDen)
RefMean == Rat(SumOver(NumRows, Scaled), CommonDen * RefCount)
RefMin == CHOOSE v \in {Num(i) : i \in NumRows} : \A j \in NumRows : RatLeq(v, Num(j))
RefMax == CHOOSE v \in {Num(i) : i \in NumRows} : \A j \in NumRows : RatLeq(Num(j), v)

\* The k-th smallest number: fewer than k rows lie below it, at least k at or below.
KthSmallest(k) ==
  CHOOSE v \in {Num(i) : i \in NumRows} :
    /\ Cardinality({j \in NumRows : RatLess(Num(j), v)}) < k
    /\ Cardinality({j \in NumRows : RatLeq(Num(j), v)}) >= k

RefMedian ==
  IF RefCount % 2 = 1 THEN KthSmallest((RefCount + 1) \div 2)
  ELSE LET lo == KthSmallest(RefCount \div 2)
           hi == KthSmallest(RefCount \div 2 + 1)
       IN  Rat(lo.n * hi.d + hi.n * lo.d, 2 * lo.d * hi.d)

\* The sample variance, (N * sum of squares - square of the sum) / (N * (N - 1)).
RefVariance ==
  Rat(RefCount * SumOver(NumRows, ScaledSq)
        - SumOver(NumRows, Scaled) * SumOver(NumRows, Scaled),
      RefCount * (RefCount - 1) * CommonDen * CommonDen)

\* The text of the statistic of family `name` over the column; "nan" where
\* the definition has no value (no number at all; fewer than two numbers
\* for the N-1 statistics).  A standard deviation is the non-negative
\* fraction whose square is the variance, or the root of the variance when
\* no fraction is.
RefStatText(name) ==
  CASE name = "count"   -> ToString(RefCount)
    [] name = "sum"     -> RatText(RefSum)
    [] name = "minimum" -> IF RefCount = 0 THEN "nan" ELSE RatText(RefMin)
    [] name = "maximum" -> IF RefCount = 0 THEN "nan" ELSE RatText(RefMax)
    [] name = "average" -> IF RefCount = 0 THEN "nan" ELSE RatText(RefMean)
    [] name = "median"  -> IF RefCount = 0 THEN "nan" ELSE RatText(RefMedian)
    [] name = "variance" -> IF RefCount < 2 THEN "nan" ELSE RatText(RefVariance)
    [] name = "standard deviation" ->
         IF RefCount < 2 THEN "nan"
         ELSE LET v == RefVariance
                  roots == {r \in (0..v.n) \X (1..v.d) : r[1] * r[1] * v.d = v.n * r[2] * r[2]}
              IN  IF roots = {} THEN "sqrt(" \o RatText(v) \o ")"
                  ELSE LET r == CHOOSE x \in roots : TRUE IN RatText(Rat(r[1], r[2]))

\* The opening of a result sentence as the code words it: "value" for the
\* minimum, maximum, average and median, "of values" for the others.
CodeOpening(name, col) ==
  IF name \in {"minimum", "maximum", "average", "median"}
  THEN "The " \o name \o " value in column '" \o col \o "' is "
  ELSE "The " \o name \o " of values in column '" \o col \o "' is "

\* The opening as the specification words it: "of values" for count alone.
SpecOpening(name, col) ==
  IF name = "count"
  THEN "The count of values in column '" \o col \o "' is "
  ELSE "The " \o name \o " value in column '" \o col \o "' is "

IsErrorText(t) == StartsWith(t, "Error: ")
\* The call returned a statistic: neither an error nor the guidance string.
Succeeded ==
  phase = "returned" /\ outcome.kind = "return"
    /\ ~IsErrorText(outcome.text) /\ outcome.text # QueryNotSupported

(***************************************************************************)
(* Claims about extract_info, checked under SpecExtract.                    *)
(***************************************************************************)

\* C1: whenever a call returns a statistic, it is the statistic of the first
\* keyword family, in the order minimum, maximum, average, sum, count,
\* median, standard deviation, variance, that has a keyword occurring in the
\* lower-cased prompt; families matching later in the order are ignored.
C1_FirstFamilyWins ==
  Succeeded =>
    LET f == ExpectedFamily(prompt)
    IN  /\ f # 0
        /\ StartsWith(outcome.text, "The " \o Families[f].name \o " ")

\* "Total Average" holds a keyword of sum and, in capitals, one of average:
\* the call answers with the average.
C1_Witness ==
  /\ phase = "returned"
  /\ prompt = "Total Average"
  /\ column = "Age"
  /\ outcome.text = "The average value in column 'Age' is 20.0."

\* C2, as the specification states it: every statistic returned for minimum,
\* maximum, average, sum, standard deviation, variance and median reads
\* "The <stat-name> value in column '<column>' is <value>.", and only count
\* reads "The count of values in column '<column>' is <value>.".
C2_SpecWording ==
  Succeeded =>
    LET opening == SpecOpening(ExpectedName(prompt), column)
    IN  /\ StartsWith(outcome.text, opening)
        /\ EndsWith(outcome.text, ".")
        /\ Len(outcome.text) > Len(opening) + 1

\* C2, amended: a statistic returned for minimum, maximum, average or median
\* reads "The <stat-name> value in column '<column>' is <value>."; one
\* returned for sum, standard deviation, variance or count reads
\* "The <stat-name> of values in column '<column>' is <value>.".
C2_CodeWording ==
  Succeeded =>
    LET opening == CodeOpening(ExpectedName(prompt), column)
    IN  /\ StartsWith(outcome.text, opening)
        /\ EndsWith(outcome.text, ".")
        /\ Len(outcome.text) > Len(opening) + 1

\* A sum has been returned, worded "of values".
C2_Witness ==
  /\ Succeeded
  /\ ExpectedName(prompt) = "sum"
  /\ outcome.text = "The sum of values in column 'Age' is 60.0."

\* The matched operation of the call fails: the column is absent, or the
\* statistic is not count and some cell of the column has no float value.
OperationFails ==
  LET f == ExpectedFamily(prompt)
  IN  /\ f # 0
      /\ \/ ~ColumnPresent
         \/ Families[f].name # "count" /\ ~AllCoercible

\* C3: no call ends by raising; a call whose matched operation fails returns
\* "Error: " followed by the text of the exception (the quoted column name
\* for an absent column, the conversion error naming an offending cell for a
\* cell that is no float), and so returns no statistic.
C3_NeverRaises ==
  phase = "returned" =>
    /\ outcome.kind = "return"
    /\ OperationFails =>
         IF ~ColumnPresent
         THEN outcome.text = "Error: '" \o column \o "'"
         ELSE \E i \in 1..Len(ColumnCells) :
                /\ ~Coercible(ColumnCells[i])
                /\ outcome.text = "Error: could not convert string to float: '"
                                     \o ColumnCells[i].text \o "'"

\* Both failures have been reported: a minimum over the absent column, and a
\* minimum over a column holding "abc".
C3_Witness ==
  /\ phase = "returned"
  /\ ExpectedFamily(prompt) = 1
  /\ \/ column = "Nope" /\ outcome.text = "Error: 'Nope'"
     \/ column = "Age" /\ outcome.text = "Error: could not convert string to float: 'abc'"

AllKeywords == UNION {Families[i].keys : i \in 1..Len(Families)}

\* C7: a call whose lower-cased prompt contains none of the keywords returns
\* the guidance string of line 72 verbatim, whatever the column: absent and
\* non-numeric columns included.
C7_UnsupportedVerbatim ==
  (phase = "returned" /\ \A k \in AllKeywords : ~str_in(k, str_lower(prompt))) =>
    /\ outcome.kind = "return"
    /\ outcome.text = QueryNotSupported

\* The guidance string has been returned for a column that is absent or
\* holds text.
C7_Witness ==
  /\ phase = "returned"
  /\ prompt \in {"joke", "Tell me a joke", ""}
  /\ \/ ~ColumnPresent
     \/ ColumnPresent /\ ~AllCoercible
  /\ outcome.text = QueryNotSupported

\* C8: for a column whose cells all have a float value, the value in the
\* result is the statistic of the matched family over the numbers of the
\* column: minimum, maximum, mean and sum, the median as the middle of the
\* sorted numbers (the mean of the two middle ones for an even count),
\* variance and standard deviation over N-1; and the count is the number of
\* non-null cells of the column, whether or not they have a float value.
C8_StandardStatistics ==
  LET f == ExpectedFamily(prompt)
  IN  (/\ phase = "returned"
       /\ f # 0
       /\ ColumnPresent
       /\ AllCoercible \/ Families[f].name = "count") =>
        outcome.text =
          CodeOpening(Families[f].name, column) \o RefStatText(Families[f].name) \o "."

\* A variance over three numbers, 10, -5 and 2.5, has been returned: 56.25.
C8_Witness ==
  /\ phase = "returned"
  /\ ExpectedFamily(prompt) = 8
  /\ ColumnPresent
  /\ AllCoercible
  /\ Cardinality(NumRows) = 3
  /\ outcome.text = "The variance of values in column 'Age' is 225/4."

(***************************************************************************)
(* Claims about the dashboard, checked under Spec.                          *)
(***************************************************************************)
Shows(kind, part) ==
  \E i \in 1..Len(rendered) : rendered[i].kind = kind /\ str_in(part, rendered[i].text)

\* The latest run pressed 'Load Google Sheet' and called get_google_sheet.
LoadAttempted == event = "load" /\ fetched.kind # "none"

\* C4: a load whose fetch returns a header row and no data rows ends as a
\* load whose fetch returns no rows at all: get_google_sheet shows
\* 'No data found.' and returns no table, and nothing is raised.
C4_HeaderOnlyIsNoData ==
  (LoadAttempted /\ fetched.kind = "values" /\ Len(fetched.values) <= 1) =>
    /\ Shows("error", "No data found.")
    /\ get_google_sheet(fetched).none
    /\ ~fault

\* C5: no run of the script ends with an exception leaving main(), and a
\* load that failed (an upload read_csv cannot parse, a fetch that raised, a
\* grid no table can be made of) has shown an error message.
C5_LoadFailuresCaught ==
  /\ ~fault
  /\ (uploaded_file.present /\ read_csv(uploaded_file.lines).raised) => Shows("error", "")
  /\ (LoadAttempted /\ get_google_sheet(fetched).none) => Shows("error", "")

\* C6: a load whose fetch returns nothing shows "No data found"; a load
\* whose fetch raises shows the text of the exception and no "No data found"
\* message.
C6_EmptyAndFailureDistinct ==
  /\ (LoadAttempted /\ fetched.kind = "values" /\ Len(fetched.values) = 0) =>
       Shows("error", "No data found")
  /\ (LoadAttempted /\ fetched.kind = "raise") =>
       /\ Shows("error", fetched.exc)
       /\ ~Shows("error", "No data found")

\* C9: a call of extract_info leaves the table it was given as the loader
\* made it (the session's table for a Sheets query, the parsed upload for a
\* CSV query), and the same query repeated on it has the same result.
C9_ExtractOnlyReads ==
  [][/\ event' = "google_extract" =>
          /\ session_state' = session_state
          /\ df' = session_state.google_df
          /\ (event = "google_extract" /\ column' = column /\ prompt' = prompt)
               => outcome' = outcome
     /\ event' = "csv_extract" =>
          /\ session_state' = session_state
          /\ df' = read_csv(uploaded_file.lines).df]_vars

\* A Sheets query has computed a statistic, the average of "10" and "30", and
\* the session's table holds the cells the loader put there.
C9_Witness ==
  /\ event = "google_extract"
  /\ phase = "returned"
  /\ outcome.text = "The average value in column 'Age' is 20.0."
  /\ session_state.google_df =
       DataFrame(<<"Age", "Name">>,
                 << <<Cell("10"), Cell("Ann")>>, <<Cell("30"), Cell("Bob")>> >>)

\* C10: a query in the Sheets section never runs against a table that an
\* earlier load produced once a later load has been attempted.
C10_QueriesUseLatestLoad == event = "google_extract" => ~stale

====
